---- MODULE Spec2Model ----
(***************************************************************************)
(* Model of src/main.py: the resource-sharing ledger (users, items, loans) *)
(* over the in-memory backend (_mem_users, _mem_items, _mem_loans).        *)
(*                                                                         *)
(* SpecB : the same requests, one at a time, served by the in-memory       *)
(*         backend and by the Mongo backend (db.users, db.items, db.loans) *)
(*         side by side.                                                   *)
(* SpecV : the email validator of UserCreate applied to an input string.   *)
(* Spec  : every request handler runs to completion as one action          *)
(*         (requests executed one at a time).                              *)
(* SpecC : requests run in worker threads and interleave between store     *)
(*         helper calls (each helper call is one step).                    *)
(***************************************************************************)
EXTENDS Integers, FiniteSets, Sequences, TLC

VARIABLES mem_users, mem_items, mem_loans, unreturned, resp, pc, req, nreq,
          db_users, db_items, db_loans, resp_mongo, email, validated

store == <<mem_users, mem_items, mem_loans>>
procs == <<pc, req>>
mongo == <<db_users, db_items, db_loans, resp_mongo>>
validator == <<email, validated>>
vars == <<mem_users, mem_items, mem_loans, unreturned, resp, pc, req, nreq,
          db_users, db_items, db_loans, resp_mongo, email, validated>>

(* ---- bounds of the model ---- *)
MaxUsers == 2
MaxItems == 2
MaxRequests == 6
NumWorkers == 2

(* ---- program constants ---- *)
POINTS_FOR_LENDING == 10
POINTS_FOR_BORROW == 5

(* ids a request may carry: every id the store can hold plus one that is   *)
(* never assigned                                                          *)
UserIdInputs == 1..(MaxUsers + 1)
ItemIdInputs == 1..(MaxItems + 1)
Workers == 1..NumWorkers

(* Python's None, the result of dict.get on a missing key *)
None == [none |-> TRUE]

(* _new_id(): a fresh id; nothing is ever deleted, so the next unused      *)
(* number of the collection is fresh                                       *)
new_id(coll) == Cardinality(DOMAIN coll) + 1

(* ---------------------------------------------------------------------- *)
(* store helpers (in-memory branch)                                        *)
(* ---------------------------------------------------------------------- *)

(* create_user_store: the new _mem_users, points start at 0 *)
create_user_store(id) == mem_users @@ (id :> [points |-> 0])

get_user_store(user_id) ==
    IF user_id \in DOMAIN mem_users THEN mem_users[user_id] ELSE None

(* variant: assigns delta instead of adding it *)
update_user_points_assign(user_id, delta) ==
    IF user_id \notin DOMAIN mem_users
    THEN [ok |-> FALSE, users |-> mem_users]
    ELSE [ok |-> TRUE,
          users |-> [mem_users EXCEPT ![user_id].points = delta]]

(* variant: the balance is floored at 0 *)
update_user_points_floored(user_id, delta) ==
    IF user_id \notin DOMAIN mem_users
    THEN [ok |-> FALSE, users |-> mem_users]
    ELSE [ok |-> TRUE,
          users |-> [mem_users EXCEPT ![user_id].points =
                        IF @ + delta < 0 THEN 0 ELSE @ + delta]]

(* update_user_points: [ok, users]; no bounds check on the result *)
update_user_points(user_id, delta) ==
    IF user_id \notin DOMAIN mem_users
    THEN [ok |-> FALSE, users |-> mem_users]
    ELSE [ok |-> TRUE,
          users |-> [mem_users EXCEPT ![user_id].points = @ + delta]]

(* create_item_store: the new _mem_items, available starts True *)
create_item_store(id, item) ==
    mem_items @@ (id :> [owner_id |-> item.owner_id, available |-> TRUE])

get_item_store(item_id) ==
    IF item_id \in DOMAIN mem_items THEN mem_items[item_id] ELSE None

(* variant: a conditional update, which matches no record when the flag    *)
(* already has the value                                                   *)
set_item_availability_conditional(item_id, available) ==
    IF item_id \notin DOMAIN mem_items \/ mem_items[item_id].available = available
    THEN [ok |-> FALSE, items |-> mem_items]
    ELSE [ok |-> TRUE,
          items |-> [mem_items EXCEPT ![item_id].available = available]]

(* variant: flips the flag instead of setting it *)
set_item_availability_toggle(item_id, available) ==
    IF item_id \notin DOMAIN mem_items
    THEN [ok |-> FALSE, items |-> mem_items]
    ELSE [ok |-> TRUE,
          items |-> [mem_items EXCEPT ![item_id].available = ~@]]

(* variant: only ever marks an item unavailable *)
set_item_availability_sticky(item_id, available) ==
    IF item_id \notin DOMAIN mem_items
    THEN [ok |-> FALSE, items |-> mem_items]
    ELSE [ok |-> TRUE,
          items |-> [mem_items EXCEPT ![item_id].available = @ /\ available]]

(* set_item_availability: [ok, items]; writes unconditionally *)
set_item_availability(item_id, available) ==
    IF item_id \notin DOMAIN mem_items
    THEN [ok |-> FALSE, items |-> mem_items]
    ELSE [ok |-> TRUE,
          items |-> [mem_items EXCEPT ![item_id].available = available]]

(* variant: the loan is filed under its item's id, not under a fresh id *)
create_loan_store_by_item(id, loan) ==
    [k \in DOMAIN mem_loans \cup {loan.item_id} |->
        IF k = loan.item_id
        THEN [item_id |-> loan.item_id, borrower_id |-> loan.borrower_id]
        ELSE mem_loans[k]]

(* variant: builds the document but never stores it *)
create_loan_store_dropped(id, loan) == mem_loans

(* create_loan_store: the new _mem_loans *)
create_loan_store(id, loan) ==
    mem_loans @@ (id :> [item_id |-> loan.item_id,
                         borrower_id |-> loan.borrower_id])

(* ---------------------------------------------------------------------- *)
(* responses                                                               *)
(* ---------------------------------------------------------------------- *)
(* what the client gets back: the request it answers (op, item_id,        *)
(* user_id), the status code and detail, and the id of the record created  *)
NoResponse ==
    [op |-> "none", status |-> 0, detail |-> "", item_id |-> 0,
     user_id |-> 0, id |-> 0]

Response(op, status, detail, item_id, user_id, id) ==
    [op |-> op, status |-> status, detail |-> detail,
     item_id |-> item_id, user_id |-> user_id, id |-> id]

(* raise HTTPException: the handler stops, nothing is written *)
HTTPException(op, status, detail, item_id, user_id) ==
    /\ resp' = Response(op, status, detail, item_id, user_id, 0)
    /\ UNCHANGED <<mem_users, mem_items, mem_loans, unreturned>>

(* history: the loans of each item made since the item's last return *)
unreturned_after_loan(item_id, loan_id) ==
    IF item_id \in DOMAIN unreturned
    THEN [unreturned EXCEPT ![item_id] = @ \cup {loan_id}]
    ELSE unreturned

unreturned_after_return(item_id) ==
    IF item_id \in DOMAIN unreturned
    THEN [unreturned EXCEPT ![item_id] = {}]
    ELSE unreturned

(* ---------------------------------------------------------------------- *)
(* request handlers, each run to completion                                *)
(* ---------------------------------------------------------------------- *)

(* POST /users/ *)
create_user ==
    LET id == new_id(mem_users) IN
    /\ mem_users' = create_user_store(id)
    /\ resp' = Response("create_user", 200, "", 0, id, id)
    /\ UNCHANGED <<mem_items, mem_loans, unreturned>>

(* POST /items/ *)
create_item(item) ==
    LET owner == get_user_store(item.owner_id)
        id == new_id(mem_items)
    IN
    IF owner = None
    THEN HTTPException("create_item", 404, "owner_id nao encontrado",
                       0, item.owner_id)
    ELSE /\ mem_items' = create_item_store(id, item)
         /\ mem_users' = update_user_points(item.owner_id, POINTS_FOR_LENDING).users
         /\ unreturned' = unreturned @@ (id :> {})
         /\ resp' = Response("create_item", 200, "", id, item.owner_id, id)
         /\ UNCHANGED mem_loans

(* variant: the availability check is missing *)
item_unavailable_unchecked(item) == FALSE

(* if not item.get("available", True) *)
item_unavailable(item) == ~item.available

(* variant: only a negative balance is refused *)
insufficient_points_negative(borrower) == borrower.points < 0

(* variant: <= in place of < *)
insufficient_points_le(borrower) == borrower.points <= POINTS_FOR_BORROW

(* if borrower.get("points", 0) < POINTS_FOR_BORROW *)
insufficient_points(borrower) == borrower.points < POINTS_FOR_BORROW

(* variant: the borrower is resolved before the availability check *)
borrow_item_borrower_first(loan) ==
    LET item == get_item_store(loan.item_id)
        borrower == get_user_store(loan.borrower_id)
        upd == set_item_availability(loan.item_id, FALSE)
        id == new_id(mem_loans)
    IN
    IF item = None
    THEN HTTPException("borrow_item", 404, "Item nao encontrado",
                       loan.item_id, loan.borrower_id)
    ELSE IF borrower = None
    THEN HTTPException("borrow_item", 404, "Usuario (borrower_id) nao encontrado",
                       loan.item_id, loan.borrower_id)
    ELSE IF item_unavailable(item)
    THEN HTTPException("borrow_item", 409, "Item ja esta emprestado",
                       loan.item_id, loan.borrower_id)
    ELSE IF insufficient_points(borrower)
    THEN HTTPException("borrow_item", 403, "Pontos insuficientes",
                       loan.item_id, loan.borrower_id)
    ELSE IF ~upd.ok
    THEN HTTPException("borrow_item", 500, "Erro ao atualizar item",
                       loan.item_id, loan.borrower_id)
    ELSE /\ mem_items' = upd.items
         /\ mem_users' = update_user_points(loan.borrower_id, -POINTS_FOR_BORROW).users
         /\ mem_loans' = create_loan_store(id, loan)
         /\ unreturned' = unreturned_after_loan(loan.item_id, id)
         /\ resp' = Response("borrow_item", 200, "item emprestado com sucesso",
                             loan.item_id, loan.borrower_id, id)

(* variant: the item is marked unavailable before the borrower is resolved *)
borrow_item_write_first(loan) ==
    LET item == get_item_store(loan.item_id)
        borrower == get_user_store(loan.borrower_id)
        upd == set_item_availability(loan.item_id, FALSE)
        id == new_id(mem_loans)
    IN
    IF item = None
    THEN HTTPException("borrow_item", 404, "Item nao encontrado",
                       loan.item_id, loan.borrower_id)
    ELSE IF item_unavailable(item)
    THEN HTTPException("borrow_item", 409, "Item ja esta emprestado",
                       loan.item_id, loan.borrower_id)
    ELSE IF borrower = None
    THEN /\ mem_items' = upd.items
         /\ resp' = Response("borrow_item", 404, "Usuario (borrower_id) nao encontrado",
                             loan.item_id, loan.borrower_id, 0)
         /\ UNCHANGED <<mem_users, mem_loans, unreturned>>
    ELSE IF insufficient_points(borrower)
    THEN HTTPException("borrow_item", 403, "Pontos insuficientes",
                       loan.item_id, loan.borrower_id)
    ELSE /\ mem_items' = upd.items
         /\ mem_users' = update_user_points(loan.borrower_id, -POINTS_FOR_BORROW).users
         /\ mem_loans' = create_loan_store(id, loan)
         /\ unreturned' = unreturned_after_loan(loan.item_id, id)
         /\ resp' = Response("borrow_item", 200, "item emprestado com sucesso",
                             loan.item_id, loan.borrower_id, id)

(* POST /loans/ *)
borrow_item(loan) ==
    LET item == get_item_store(loan.item_id)
        borrower == get_user_store(loan.borrower_id)
        upd == set_item_availability(loan.item_id, FALSE)
        id == new_id(mem_loans)
    IN
    IF item = None
    THEN HTTPException("borrow_item", 404, "Item nao encontrado",
                       loan.item_id, loan.borrower_id)
    ELSE IF item_unavailable(item)
    THEN HTTPException("borrow_item", 409, "Item ja esta emprestado",
                       loan.item_id, loan.borrower_id)
    ELSE IF borrower = None
    THEN HTTPException("borrow_item", 404, "Usuario (borrower_id) nao encontrado",
                       loan.item_id, loan.borrower_id)
    ELSE IF insufficient_points(borrower)
    THEN HTTPException("borrow_item", 403, "Pontos insuficientes",
                       loan.item_id, loan.borrower_id)
    ELSE IF ~upd.ok
    THEN HTTPException("borrow_item", 500, "Erro ao atualizar item",
                       loan.item_id, loan.borrower_id)
    ELSE /\ mem_items' = upd.items
         /\ mem_users' = update_user_points(loan.borrower_id, -POINTS_FOR_BORROW).users
         /\ mem_loans' = create_loan_store(id, loan)
         /\ unreturned' = unreturned_after_loan(loan.item_id, id)
         /\ resp' = Response("borrow_item", 200, "item emprestado com sucesso",
                             loan.item_id, loan.borrower_id, id)

(* POST /loans/return/{item_id} *)
return_item(item_id) ==
    LET item == get_item_store(item_id)
        upd == set_item_availability(item_id, TRUE)
    IN
    IF item = None
    THEN HTTPException("return_item", 404, "Item nao encontrado", item_id, 0)
    ELSE IF ~upd.ok
    THEN HTTPException("return_item", 500, "Erro ao atualizar item", item_id, 0)
    ELSE /\ mem_items' = upd.items
         /\ unreturned' = unreturned_after_return(item_id)
         /\ resp' = Response("return_item", 200, "item devolvido com sucesso",
                             item_id, 0, 0)
         /\ UNCHANGED <<mem_users, mem_loans>>

(* ---------------------------------------------------------------------- *)
(* store helpers (USE_MONGO branch)                                        *)
(* ---------------------------------------------------------------------- *)

(* the _id insert_one gives a document that has none: a fresh ObjectId *)
ObjectId(n) == [oid |-> n]

(* str(res.inserted_id): the hex string of an ObjectId; a string is never  *)
(* equal to an ObjectId                                                    *)
str(object_id) == [hex |-> object_id.oid]

inserted_id(coll) == ObjectId(Cardinality(DOMAIN coll) + 1)

(* find_one({"_id": id}) / update_one({"_id": id}, ...): the documents     *)
(* whose _id equals the value given, compared as it is                     *)
matched(coll, id) == {k \in DOMAIN coll : k = id}

(* the ids a client of the Mongo backend can send: strings, among them     *)
(* every id a response has carried or will carry                           *)
MongoId(n) == str(ObjectId(n))

create_user_store_mongo(object_id) == db_users @@ (object_id :> [points |-> 0])

get_user_store_mongo(user_id) ==
    IF matched(db_users, user_id) /= {}
    THEN [points |-> db_users[user_id].points]
    ELSE None

update_user_points_mongo(user_id, delta) ==
    IF matched(db_users, user_id) = {}
    THEN [ok |-> FALSE, users |-> db_users]
    ELSE [ok |-> TRUE,
          users |-> [db_users EXCEPT ![user_id].points = @ + delta]]

create_item_store_mongo(object_id, item) ==
    db_items @@ (object_id :> [owner_id |-> item.owner_id, available |-> TRUE])

get_item_store_mongo(item_id) ==
    IF matched(db_items, item_id) /= {}
    THEN [owner_id |-> db_items[item_id].owner_id,
          available |-> db_items[item_id].available]
    ELSE None

set_item_availability_mongo(item_id, available) ==
    IF matched(db_items, item_id) = {}
    THEN [ok |-> FALSE, items |-> db_items]
    ELSE [ok |-> TRUE,
          items |-> [db_items EXCEPT ![item_id].available = available]]

create_loan_store_mongo(object_id, loan) ==
    db_loans @@ (object_id :> [item_id |-> loan.item_id,
                               borrower_id |-> loan.borrower_id])

(* ---------------------------------------------------------------------- *)
(* the request handlers over the Mongo backend                             *)
(* ---------------------------------------------------------------------- *)
HTTPException_mongo(op, status, detail, item_id, user_id) ==
    /\ resp_mongo' = Response(op, status, detail, item_id, user_id, 0)
    /\ UNCHANGED <<db_users, db_items, db_loans>>

create_user_mongo ==
    LET object_id == inserted_id(db_users) IN
    /\ db_users' = create_user_store_mongo(object_id)
    /\ resp_mongo' = Response("create_user", 200, "", 0, str(object_id),
                              str(object_id))
    /\ UNCHANGED <<db_items, db_loans>>

create_item_mongo(item) ==
    LET owner == get_user_store_mongo(item.owner_id)
        object_id == inserted_id(db_items)
    IN
    IF owner = None
    THEN HTTPException_mongo("create_item", 404, "owner_id nao encontrado",
                             0, item.owner_id)
    ELSE /\ db_items' = create_item_store_mongo(object_id, item)
         /\ db_users' = update_user_points_mongo(item.owner_id,
                                                 POINTS_FOR_LENDING).users
         /\ resp_mongo' = Response("create_item", 200, "", str(object_id),
                                   item.owner_id, str(object_id))
         /\ UNCHANGED db_loans

borrow_item_mongo(loan) ==
    LET item == get_item_store_mongo(loan.item_id)
        borrower == get_user_store_mongo(loan.borrower_id)
        upd == set_item_availability_mongo(loan.item_id, FALSE)
        object_id == inserted_id(db_loans)
    IN
    IF item = None
    THEN HTTPException_mongo("borrow_item", 404, "Item nao encontrado",
                             loan.item_id, loan.borrower_id)
    ELSE IF item_unavailable(item)
    THEN HTTPException_mongo("borrow_item", 409, "Item ja esta emprestado",
                             loan.item_id, loan.borrower_id)
    ELSE IF borrower = None
    THEN HTTPException_mongo("borrow_item", 404,
                             "Usuario (borrower_id) nao encontrado",
                             loan.item_id, loan.borrower_id)
    ELSE IF insufficient_points(borrower)
    THEN HTTPException_mongo("borrow_item", 403, "Pontos insuficientes",
                             loan.item_id, loan.borrower_id)
    ELSE IF ~upd.ok
    THEN HTTPException_mongo("borrow_item", 500, "Erro ao atualizar item",
                             loan.item_id, loan.borrower_id)
    ELSE /\ db_items' = upd.items
         /\ db_users' = update_user_points_mongo(loan.borrower_id,
                                                 -POINTS_FOR_BORROW).users
         /\ db_loans' = create_loan_store_mongo(object_id, loan)
         /\ resp_mongo' = Response("borrow_item", 200,
                                   "item emprestado com sucesso",
                                   loan.item_id, loan.borrower_id, str(object_id))

return_item_mongo(item_id) ==
    LET item == get_item_store_mongo(item_id)
        upd == set_item_availability_mongo(item_id, TRUE)
    IN
    IF item = None
    THEN HTTPException_mongo("return_item", 404, "Item nao encontrado",
                             item_id, 0)
    ELSE IF ~upd.ok
    THEN HTTPException_mongo("return_item", 500, "Erro ao atualizar item",
                             item_id, 0)
    ELSE /\ db_items' = upd.items
         /\ resp_mongo' = Response("return_item", 200,
                                   "item devolvido com sucesso", item_id, 0, 0)
         /\ UNCHANGED <<db_users, db_loans>>

(* ---------------------------------------------------------------------- *)
(* UserCreate.simple_email                                                 *)
(* ---------------------------------------------------------------------- *)
(* the characters of the inputs: a lower-case letter, an upper-case        *)
(* letter, the at sign, the dot and a blank                                *)
Chars == {"a", "B", "@", ".", " "}
MaxEmailLen == 6
UpTo(n) == UNION {[1..k -> Chars] : k \in 0..n}
Emails == UpTo(MaxEmailLen)

(* re.match(r"[^@]+@[^@]+\.[^@]+", v): the pattern matches a prefix of v,  *)
(* nothing is required of what follows the match. The first [^@]+ runs     *)
(* from the start to the first at sign (position i), the second from i + 1 *)
(* to a dot at position j, the third needs one character after the dot.    *)
re_match(v) ==
    \E i, j \in 1..Len(v) :
        /\ 1 < i /\ i + 1 < j /\ j < Len(v)
        /\ v[i] = "@" /\ v[j] = "."
        /\ \A k \in 1..(j + 1) : k /= i => v[k] /= "@"

(* str.lower *)
lower(v) == [k \in 1..Len(v) |-> IF v[k] = "B" THEN "b" ELSE v[k]]

(* str.strip: leading and trailing whitespace removed *)
RECURSIVE lstrip(_)
lstrip(v) == IF v /= <<>> /\ Head(v) = " " THEN lstrip(Tail(v)) ELSE v
RECURSIVE rstrip(_)
rstrip(v) ==
    IF v /= <<>> /\ v[Len(v)] = " " THEN rstrip(SubSeq(v, 1, Len(v) - 1)) ELSE v
strip(v) == rstrip(lstrip(v))

(* the outcome of the validator: the value stored, or ValueError (422) *)
NotValidated == [state |-> "none"]
ValueError == [state |-> "error"]
Validated(v) == [state |-> "ok", email |-> v]

simple_email(v) ==
    IF ~re_match(v) THEN ValueError ELSE Validated(strip(lower(v)))

(* the request a worker is serving: ItemCreate.owner_id, LoanCreate or the *)
(* item_id of the path                                                     *)
NoRequest == [op |-> "none", item_id |-> 0, user_id |-> 0]
Request(op, item_id, user_id) ==
    [op |-> op, item_id |-> item_id, user_id |-> user_id]

(* ---------------------------------------------------------------------- *)
(* requests executed one at a time                                         *)
(* ---------------------------------------------------------------------- *)
Init ==
    /\ mem_users = <<>>
    /\ mem_items = <<>>
    /\ mem_loans = <<>>
    /\ unreturned = <<>>
    /\ resp = NoResponse
    /\ pc = [w \in Workers |-> "idle"]
    /\ req = [w \in Workers |-> NoRequest]
    /\ nreq = 0
    /\ db_users = <<>>
    /\ db_items = <<>>
    /\ db_loans = <<>>
    /\ resp_mongo = NoResponse
    /\ email = <<>>
    /\ validated = NotValidated

(* the server accepts one more request, up to MaxRequests in a run *)
Accept == nreq < MaxRequests /\ nreq' = nreq + 1

Next ==
    \/ /\ Cardinality(DOMAIN mem_users) < MaxUsers
       /\ create_user
       /\ Accept /\ UNCHANGED <<procs, mongo, validator>>
    \/ /\ Cardinality(DOMAIN mem_items) < MaxItems
       /\ \E owner_id \in UserIdInputs : create_item([owner_id |-> owner_id])
       /\ Accept /\ UNCHANGED <<procs, mongo, validator>>
    \/ /\ \E item_id \in ItemIdInputs, borrower_id \in UserIdInputs :
            borrow_item([item_id |-> item_id, borrower_id |-> borrower_id])
       /\ Accept /\ UNCHANGED <<procs, mongo, validator>>
    \/ /\ \E item_id \in ItemIdInputs : return_item(item_id)
       /\ Accept /\ UNCHANGED <<procs, mongo, validator>>

Spec == Init /\ [][Next]_vars

(* ---------------------------------------------------------------------- *)
(* the validator applied to the email of a request body                    *)
(* ---------------------------------------------------------------------- *)
InitV ==
    /\ mem_users = <<>>
    /\ mem_items = <<>>
    /\ mem_loans = <<>>
    /\ unreturned = <<>>
    /\ resp = NoResponse
    /\ pc = [w \in Workers |-> "idle"]
    /\ req = [w \in Workers |-> NoRequest]
    /\ nreq = 0
    /\ db_users = <<>>
    /\ db_items = <<>>
    /\ db_loans = <<>>
    /\ resp_mongo = NoResponse
    /\ email \in Emails
    /\ validated = NotValidated

validate_email ==
    /\ validated = NotValidated
    /\ validated' = simple_email(email)
    /\ UNCHANGED <<mem_users, mem_items, mem_loans, unreturned, resp, pc, req,
                   nreq, db_users, db_items, db_loans, resp_mongo, email>>

SpecV == InitV /\ [][validate_email]_vars

(* ---------------------------------------------------------------------- *)
(* the same requests served by both backends, one at a time: the n-th      *)
(* record of a collection has id n in memory and MongoId(n) in Mongo       *)
(* ---------------------------------------------------------------------- *)
NextB ==
    \/ /\ Cardinality(DOMAIN mem_users) < MaxUsers
       /\ create_user /\ create_user_mongo
       /\ Accept /\ UNCHANGED <<procs, validator>>
    \/ /\ Cardinality(DOMAIN mem_items) < MaxItems
       /\ \E owner_id \in UserIdInputs :
            /\ create_item([owner_id |-> owner_id])
            /\ create_item_mongo([owner_id |-> MongoId(owner_id)])
       /\ Accept /\ UNCHANGED <<procs, validator>>
    \/ /\ \E item_id \in ItemIdInputs, borrower_id \in UserIdInputs :
            /\ borrow_item([item_id |-> item_id, borrower_id |-> borrower_id])
            /\ borrow_item_mongo([item_id |-> MongoId(item_id),
                                  borrower_id |-> MongoId(borrower_id)])
       /\ Accept /\ UNCHANGED <<procs, validator>>
    \/ /\ \E item_id \in ItemIdInputs :
            /\ return_item(item_id)
            /\ return_item_mongo(MongoId(item_id))
       /\ Accept /\ UNCHANGED <<procs, validator>>

SpecB == Init /\ [][NextB]_vars

(* ---------------------------------------------------------------------- *)
(* requests served by worker threads: a handler is a sequence of steps,    *)
(* one per store helper call together with the test that follows it; pc    *)
(* names the handler and the helper call it is about to make               *)
(* ---------------------------------------------------------------------- *)
InFlight(op) == Cardinality({w \in Workers : req[w].op = op})

Goto(w, label, request) ==
    /\ pc' = [pc EXCEPT ![w] = label]
    /\ req' = [req EXCEPT ![w] = request]

Done(w) == Goto(w, "idle", NoRequest)

(* create_user, lines 176-179: a single helper call *)
create_user_step(w) ==
    /\ pc[w] = "idle"
    /\ create_user
    /\ UNCHANGED procs

(* variant: the owner is not looked up *)
create_item_get_owner_unchecked(w, item) ==
    /\ pc[w] = "idle"
    /\ Goto(w, "create_item:create_item_store",
            Request("create_item", 0, item.owner_id))
    /\ UNCHANGED <<mem_users, mem_items, mem_loans, unreturned, resp>>

(* create_item, lines 190-192: owner = get_user_store(...); if not owner *)
create_item_get_owner(w, item) ==
    /\ pc[w] = "idle"
    /\ IF get_user_store(item.owner_id) = None
       THEN /\ HTTPException("create_item", 404, "owner_id nao encontrado",
                             0, item.owner_id)
            /\ UNCHANGED procs
       ELSE /\ Goto(w, "create_item:create_item_store",
                    Request("create_item", 0, item.owner_id))
            /\ UNCHANGED <<mem_users, mem_items, mem_loans, unreturned, resp>>

(* create_item, line 195: i = create_item_store(item) *)
create_item_insert(w) ==
    LET id == new_id(mem_items) IN
    /\ pc[w] = "create_item:create_item_store"
    /\ mem_items' = create_item_store(id, [owner_id |-> req[w].user_id])
    /\ unreturned' = unreturned @@ (id :> {})
    /\ Goto(w, "create_item:update_user_points",
            Request("create_item", id, req[w].user_id))
    /\ UNCHANGED <<mem_users, mem_loans, resp>>

(* create_item, lines 197-198: update_user_points(...); return i *)
create_item_credit(w) ==
    /\ pc[w] = "create_item:update_user_points"
    /\ mem_users' = update_user_points(req[w].user_id, POINTS_FOR_LENDING).users
    /\ resp' = Response("create_item", 200, "", req[w].item_id, req[w].user_id,
                        req[w].item_id)
    /\ Done(w)
    /\ UNCHANGED <<mem_items, mem_loans, unreturned>>

(* borrow_item, lines 208-212: item = get_item_store(...) and its tests *)
borrow_item_get_item(w, loan) ==
    LET item == get_item_store(loan.item_id) IN
    /\ pc[w] = "idle"
    /\ IF item = None
       THEN /\ HTTPException("borrow_item", 404, "Item nao encontrado",
                             loan.item_id, loan.borrower_id)
            /\ UNCHANGED procs
       ELSE IF item_unavailable(item)
       THEN /\ HTTPException("borrow_item", 409, "Item ja esta emprestado",
                             loan.item_id, loan.borrower_id)
            /\ UNCHANGED procs
       ELSE /\ Goto(w, "borrow_item:get_user_store",
                    Request("borrow_item", loan.item_id, loan.borrower_id))
            /\ UNCHANGED <<mem_users, mem_items, mem_loans, unreturned, resp>>

(* borrow_item, lines 215-221: borrower = get_user_store(...) and its tests *)
borrow_item_get_borrower(w) ==
    LET borrower == get_user_store(req[w].user_id) IN
    /\ pc[w] = "borrow_item:get_user_store"
    /\ IF borrower = None
       THEN /\ HTTPException("borrow_item", 404,
                             "Usuario (borrower_id) nao encontrado",
                             req[w].item_id, req[w].user_id)
            /\ Done(w)
       ELSE IF insufficient_points(borrower)
       THEN /\ HTTPException("borrow_item", 403, "Pontos insuficientes",
                             req[w].item_id, req[w].user_id)
            /\ Done(w)
       ELSE /\ Goto(w, "borrow_item:set_item_availability", req[w])
            /\ UNCHANGED <<mem_users, mem_items, mem_loans, unreturned, resp>>

(* borrow_item, lines 224-226: ok = set_item_availability(..., False) *)
borrow_item_set_unavailable(w) ==
    LET upd == set_item_availability(req[w].item_id, FALSE) IN
    /\ pc[w] = "borrow_item:set_item_availability"
    /\ IF ~upd.ok
       THEN /\ HTTPException("borrow_item", 500, "Erro ao atualizar item",
                             req[w].item_id, req[w].user_id)
            /\ Done(w)
       ELSE /\ mem_items' = upd.items
            /\ Goto(w, "borrow_item:update_user_points", req[w])
            /\ UNCHANGED <<mem_users, mem_loans, unreturned, resp>>

(* variant: the debit is left out *)
borrow_item_debit_skipped(w) ==
    /\ pc[w] = "borrow_item:update_user_points"
    /\ Goto(w, "borrow_item:create_loan_store", req[w])
    /\ UNCHANGED <<mem_users, mem_items, mem_loans, unreturned, resp>>

(* borrow_item, line 229: update_user_points(..., -POINTS_FOR_BORROW) *)
borrow_item_debit(w) ==
    /\ pc[w] = "borrow_item:update_user_points"
    /\ mem_users' = update_user_points(req[w].user_id, -POINTS_FOR_BORROW).users
    /\ Goto(w, "borrow_item:create_loan_store", req[w])
    /\ UNCHANGED <<mem_items, mem_loans, unreturned, resp>>

(* borrow_item, lines 232-235: create_loan_store(loan); return *)
borrow_item_insert_loan(w) ==
    LET id == new_id(mem_loans) IN
    /\ pc[w] = "borrow_item:create_loan_store"
    /\ mem_loans' = create_loan_store(id, [item_id |-> req[w].item_id,
                                           borrower_id |-> req[w].user_id])
    /\ unreturned' = unreturned_after_loan(req[w].item_id, id)
    /\ resp' = Response("borrow_item", 200, "item emprestado com sucesso",
                        req[w].item_id, req[w].user_id, id)
    /\ Done(w)
    /\ UNCHANGED <<mem_users, mem_items>>

(* return_item, lines 240-242: item = get_item_store(...); if not item *)
return_item_get_item(w, item_id) ==
    /\ pc[w] = "idle"
    /\ IF get_item_store(item_id) = None
       THEN /\ HTTPException("return_item", 404, "Item nao encontrado",
                             item_id, 0)
            /\ UNCHANGED procs
       ELSE /\ Goto(w, "return_item:set_item_availability",
                    Request("return_item", item_id, 0))
            /\ UNCHANGED <<mem_users, mem_items, mem_loans, unreturned, resp>>

(* return_item, lines 245-250: ok = set_item_availability(..., True) *)
return_item_set_available(w) ==
    LET upd == set_item_availability(req[w].item_id, TRUE) IN
    /\ pc[w] = "return_item:set_item_availability"
    /\ IF ~upd.ok
       THEN HTTPException("return_item", 500, "Erro ao atualizar item",
                          req[w].item_id, 0)
       ELSE /\ mem_items' = upd.items
            /\ unreturned' = unreturned_after_return(req[w].item_id)
            /\ resp' = Response("return_item", 200, "item devolvido com sucesso",
                                req[w].item_id, 0, 0)
            /\ UNCHANGED <<mem_users, mem_loans>>
    /\ Done(w)

NextC ==
    \/ /\ Cardinality(DOMAIN mem_users) < MaxUsers
       /\ \E w \in Workers : create_user_step(w)
       /\ Accept /\ UNCHANGED <<mongo, validator>>
    \/ /\ Cardinality(DOMAIN mem_items) + InFlight("create_item") < MaxItems
       /\ \E w \in Workers, owner_id \in UserIdInputs :
            create_item_get_owner(w, [owner_id |-> owner_id])
       /\ Accept /\ UNCHANGED <<mongo, validator>>
    \/ /\ \E w \in Workers : create_item_insert(w)
       /\ UNCHANGED <<nreq, mongo, validator>>
    \/ /\ \E w \in Workers : create_item_credit(w)
       /\ UNCHANGED <<nreq, mongo, validator>>
    \/ /\ \E w \in Workers, item_id \in ItemIdInputs, borrower_id \in UserIdInputs :
            borrow_item_get_item(w, [item_id |-> item_id, borrower_id |-> borrower_id])
       /\ Accept /\ UNCHANGED <<mongo, validator>>
    \/ /\ \E w \in Workers : borrow_item_get_borrower(w)
       /\ UNCHANGED <<nreq, mongo, validator>>
    \/ /\ \E w \in Workers : borrow_item_set_unavailable(w)
       /\ UNCHANGED <<nreq, mongo, validator>>
    \/ /\ \E w \in Workers : borrow_item_debit(w)
       /\ UNCHANGED <<nreq, mongo, validator>>
    \/ /\ \E w \in Workers : borrow_item_insert_loan(w)
       /\ UNCHANGED <<nreq, mongo, validator>>
    \/ /\ \E w \in Workers, item_id \in ItemIdInputs : return_item_get_item(w, item_id)
       /\ Accept /\ UNCHANGED <<mongo, validator>>
    \/ /\ \E w \in Workers : return_item_set_available(w)
       /\ UNCHANGED <<nreq, mongo, validator>>

SpecC == Init /\ [][NextC]_vars

(* ====================================================================== *)
(* Properties of requests executed one at a time (Spec)                    *)
(* ====================================================================== *)

(* the step answers a borrow / return / create-item request *)
IsBorrow == resp'.op = "borrow_item"
IsReturn == resp'.op = "return_item"
IsCreateItem == resp'.op = "create_item"

ItemExists(i) == i \in DOMAIN mem_items
UserExists(u) == u \in DOMAIN mem_users
LoansOf(i) == {l \in DOMAIN mem_loans : mem_loans[l].item_id = i}

(* C1: borrow succeeds iff the item exists and is available and the        *)
(* borrower exists with at least 5 points; a success debits the borrower   *)
(* exactly 5, marks the item unavailable and adds exactly one loan for     *)
(* that item and borrower, and changes no other user, item or loan.        *)
C1_BorrowContract ==
    [][IsBorrow =>
        LET i == resp'.item_id
            b == resp'.user_id
            l == resp'.id
        IN
        /\ (resp'.status = 200) <=>
              (/\ ItemExists(i) /\ mem_items[i].available
               /\ UserExists(b) /\ mem_users[b].points >= 5)
        /\ (resp'.status = 200) =>
              /\ mem_users' = [mem_users EXCEPT ![b].points = @ - 5]
              /\ mem_items' = [mem_items EXCEPT ![i].available = FALSE]
              /\ l \notin DOMAIN mem_loans
              /\ DOMAIN mem_loans' = DOMAIN mem_loans \cup {l}
              /\ mem_loans'[l] = [item_id |-> i, borrower_id |-> b]
              /\ \A k \in DOMAIN mem_loans : mem_loans'[k] = mem_loans[k]
      ]_vars

(* a borrow by a user holding exactly 5 points has succeeded *)
C1_Witness ==
    /\ resp.op = "borrow_item" /\ resp.status = 200
    /\ mem_users[resp.user_id].points = 0
    /\ ~mem_items[resp.item_id].available

(* C2: every user's points are >= 0 in every state *)
C2_PointsNonNegative ==
    \A u \in DOMAIN mem_users : mem_users[u].points >= 0

(* a user has spent every point: two borrows after one item created *)
C2_Witness ==
    \E u \in DOMAIN mem_users :
        /\ mem_users[u].points = 0
        /\ Cardinality({l \in DOMAIN mem_loans : mem_loans[l].borrower_id = u}) = 2

(* the status borrow_item answers with, by the order of its checks *)
BorrowStatus(i, b) ==
    IF ~ItemExists(i) THEN 404
    ELSE IF ~mem_items[i].available THEN 409
    ELSE IF ~UserExists(b) THEN 404
    ELSE IF mem_users[b].points < 5 THEN 403
    ELSE 200

(* C4 as stated: a borrow naming a missing item or a missing borrower      *)
(* answers 404, in preference to 409 and 403.                              *)
C4_NotFoundFirst ==
    [][IsBorrow =>
        ((~ItemExists(resp'.item_id) \/ ~UserExists(resp'.user_id))
            => resp'.status = 404)
      ]_vars

(* C4 (amended): the error is chosen in the order missing item (404),      *)
(* unavailable item (409), missing borrower (404), insufficient points     *)
(* (403); an unavailable item named together with a missing borrower       *)
(* answers 409.                                                            *)
C4_ErrorOrder ==
    [][IsBorrow =>
        /\ resp'.status = BorrowStatus(resp'.item_id, resp'.user_id)
        /\ (resp'.status = 404 /\ ItemExists(resp'.item_id))
               => resp'.detail = "Usuario (borrower_id) nao encontrado"
      ]_vars

(* an unavailable item was requested by a borrower that does not exist *)
C4_Witness ==
    /\ resp.op = "borrow_item" /\ resp.status = 409
    /\ resp.user_id \notin DOMAIN mem_users
    /\ resp.item_id \in DOMAIN mem_items

(* C5: a borrow of an existing item whose available flag is false answers  *)
(* 409 whatever the borrower's points are, and changes no points, no flag  *)
(* and no loan.                                                            *)
C5_UnavailableConflict ==
    [][(IsBorrow /\ ItemExists(resp'.item_id)
                 /\ ~mem_items[resp'.item_id].available) =>
        /\ resp'.status = 409
        /\ mem_users' = mem_users
        /\ mem_items' = mem_items
        /\ mem_loans' = mem_loans
      ]_vars

(* 409 was answered to a borrower holding enough points to borrow *)
C5_Witness ==
    /\ resp.op = "borrow_item" /\ resp.status = 409
    /\ resp.item_id \in DOMAIN mem_items
    /\ resp.user_id \in DOMAIN mem_users
    /\ mem_users[resp.user_id].points >= 5

(* C6: a borrow that fails because the item or the borrower does not exist *)
(* leaves users, items and loans as they were.                             *)
C6_NotFoundNoWrite ==
    [][(IsBorrow /\ (\/ resp'.status = 404
                     \/ ~ItemExists(resp'.item_id)
                     \/ ~UserExists(resp'.user_id))) =>
        /\ resp'.status /= 200
        /\ mem_users' = mem_users
        /\ mem_items' = mem_items
        /\ mem_loans' = mem_loans
      ]_vars

(* an available item was requested by a borrower that does not exist *)
C6_Witness ==
    /\ resp.op = "borrow_item" /\ resp.status = 404
    /\ resp.item_id \in DOMAIN mem_items
    /\ mem_items[resp.item_id].available
    /\ resp.user_id \notin DOMAIN mem_users

(* C7: returnItem on an existing item succeeds and leaves it available     *)
(* whatever it was before, changing no points, no loan and no other item;  *)
(* on a missing item it answers 404 and changes nothing.                   *)
C7_ReturnContract ==
    [][IsReturn =>
        LET i == resp'.item_id IN
        IF ItemExists(i)
        THEN /\ resp'.status = 200
             /\ mem_items' = [mem_items EXCEPT ![i].available = TRUE]
             /\ mem_users' = mem_users
             /\ mem_loans' = mem_loans
        ELSE /\ resp'.status = 404
             /\ mem_users' = mem_users
             /\ mem_items' = mem_items
             /\ mem_loans' = mem_loans
      ]_vars

(* an item with a loan on record has been returned and is available, the   *)
(* loan still on record                                                    *)
C7_Witness ==
    /\ resp.op = "return_item" /\ resp.status = 200
    /\ mem_items[resp.item_id].available
    /\ LoansOf(resp.item_id) /= {}

(* C8: an item creation by an existing owner adds one available item of    *)
(* that owner and credits the owner exactly 10 points; with an unknown     *)
(* owner it answers 404, adds no item and changes no points.               *)
C8_CreateItemContract ==
    [][IsCreateItem =>
        LET u == resp'.user_id
            i == resp'.id
        IN
        IF UserExists(u)
        THEN /\ resp'.status = 200
             /\ i \notin DOMAIN mem_items
             /\ DOMAIN mem_items' = DOMAIN mem_items \cup {i}
             /\ mem_items'[i] = [owner_id |-> u, available |-> TRUE]
             /\ \A k \in DOMAIN mem_items : mem_items'[k] = mem_items[k]
             /\ mem_users' = [mem_users EXCEPT ![u].points = @ + 10]
             /\ mem_loans' = mem_loans
        ELSE /\ resp'.status = 404
             /\ mem_users' = mem_users
             /\ mem_items' = mem_items
             /\ mem_loans' = mem_loans
      ]_vars

(* an owner has been credited for a second item *)
C8_Witness ==
    /\ resp.op = "create_item" /\ resp.status = 200
    /\ mem_users[resp.user_id].points = 20

(* C9: an item is unavailable iff a loan of it was made since its last     *)
(* return (or since its creation).                                         *)
C9_UnavailableIffOpenLoan ==
    /\ DOMAIN unreturned = DOMAIN mem_items
    /\ \A i \in DOMAIN mem_items :
          /\ unreturned[i] \subseteq LoansOf(i)
          /\ (~mem_items[i].available) <=> (unreturned[i] /= {})

(* an item is on loan again after an earlier loan of it was returned *)
C9_Witness ==
    \E i \in DOMAIN mem_items :
        /\ ~mem_items[i].available
        /\ Cardinality(unreturned[i]) = 1
        /\ Cardinality(LoansOf(i)) = 2

(* ---- the end-to-end scenario: A is user 1, B is user 2, A's item is     *)
(* item 1, B's item is item 2 ---- *)
Item(owner_id, available) == [owner_id |-> owner_id, available |-> available]
Scn(users, items, loans) ==
    mem_users = users /\ mem_items = items /\ mem_loans = loans
ScnEmpty == Scn(<<>>, <<>>, <<>>)
ScnA == Scn(1 :> [points |-> 0], <<>>, <<>>)
ScnAItem == Scn(1 :> [points |-> 10], 1 :> Item(1, TRUE), <<>>)
ScnB ==
    Scn((1 :> [points |-> 10]) @@ (2 :> [points |-> 0]),
        1 :> Item(1, TRUE), <<>>)
ScnBItem ==
    Scn((1 :> [points |-> 10]) @@ (2 :> [points |-> 10]),
        (1 :> Item(1, TRUE)) @@ (2 :> Item(2, TRUE)), <<>>)
ScnBorrowed ==
    Scn((1 :> [points |-> 10]) @@ (2 :> [points |-> 5]),
        (1 :> Item(1, FALSE)) @@ (2 :> Item(2, TRUE)),
        1 :> [item_id |-> 1, borrower_id |-> 2])
ScnReturned ==
    Scn((1 :> [points |-> 10]) @@ (2 :> [points |-> 5]),
        (1 :> Item(1, TRUE)) @@ (2 :> Item(2, TRUE)),
        1 :> [item_id |-> 1, borrower_id |-> 2])

Answers(op, item_id, user_id, status) ==
    /\ resp'.op = op /\ resp'.item_id = item_id /\ resp'.user_id = user_id
    /\ resp'.status = status

(* C10: from the empty store, register A (0 points), A creates an item (A  *)
(* has 10), register B (0 points); B's borrow of A's item answers 403 and  *)
(* changes nothing while B has fewer than 5 points; once B has created an  *)
(* item (B has 10) the borrow succeeds: B has 5, the item is unavailable,  *)
(* one loan exists; the return makes the item available and leaves B's 5   *)
(* points and the loan.                                                    *)
C10_Scenario ==
    /\ ScnEmpty
    /\ [][/\ (ScnEmpty /\ resp'.op = "create_user")
                => (Answers("create_user", 0, 1, 200) /\ ScnA')
          /\ (ScnA /\ resp'.op = "create_item" /\ resp'.user_id = 1)
                => (Answers("create_item", 1, 1, 200) /\ ScnAItem')
          /\ (ScnAItem /\ resp'.op = "create_user")
                => (Answers("create_user", 0, 2, 200) /\ ScnB')
          /\ (ScnB /\ IsBorrow /\ resp'.item_id = 1 /\ resp'.user_id = 2)
                => (Answers("borrow_item", 1, 2, 403) /\ ScnB')
          /\ (ScnB /\ resp'.op = "create_item" /\ resp'.user_id = 2)
                => (Answers("create_item", 2, 2, 200) /\ ScnBItem')
          /\ (ScnBItem /\ IsBorrow /\ resp'.item_id = 1 /\ resp'.user_id = 2)
                => (Answers("borrow_item", 1, 2, 200) /\ ScnBorrowed')
          /\ (ScnBorrowed /\ IsReturn /\ resp'.item_id = 1)
                => (Answers("return_item", 1, 0, 200) /\ ScnReturned')
         ]_vars

(* the scenario has run to its end: the return of A's item was answered *)
C10_Witness ==
    /\ ScnReturned
    /\ resp.op = "return_item" /\ resp.item_id = 1 /\ resp.status = 200
    /\ unreturned[1] = {}

(* ====================================================================== *)
(* Properties of interleaved requests (SpecC)                              *)
(* ====================================================================== *)

(* worker w is serving a borrow that has passed all four checks *)
PastChecks(w) ==
    pc[w] \in {"borrow_item:set_item_availability",
               "borrow_item:update_user_points",
               "borrow_item:create_loan_store"}

(* C3: two borrows of the same available item that have both read the flag *)
(* before either wrote it both succeed: once past its checks a borrow      *)
(* never looks at the flag or the points again; whatever other requests    *)
(* do meanwhile, its next steps mark the item unavailable, debit its       *)
(* borrower 5 and add its loan, and it answers 200.                        *)
C3_PastChecksSucceeds ==
    [][\A w \in Workers :
        LET i == req[w].item_id
            b == req[w].user_id
        IN
        (PastChecks(w) /\ pc'[w] /= pc[w]) =>
            /\ pc[w] = "borrow_item:set_item_availability" =>
                  /\ pc'[w] = "borrow_item:update_user_points"
                  /\ ~mem_items'[i].available
            /\ pc[w] = "borrow_item:update_user_points" =>
                  /\ pc'[w] = "borrow_item:create_loan_store"
                  /\ mem_users'[b].points = mem_users[b].points - 5
            /\ pc[w] = "borrow_item:create_loan_store" =>
                  /\ pc'[w] = "idle"
                  /\ resp'.op = "borrow_item" /\ resp'.status = 200
                  /\ resp'.item_id = i /\ resp'.user_id = b
                  /\ resp'.id \notin DOMAIN mem_loans
                  /\ resp'.id \in DOMAIN mem_loans'
                  /\ mem_loans'[resp'.id] = [item_id |-> i, borrower_id |-> b]
                  /\ resp'.id \in unreturned'[i]
      ]_vars

(* the double loan: two loans of one item with no return between them, to  *)
(* two borrowers who had 10 points each and have both been debited 5       *)
C3_Witness ==
    /\ \A w \in Workers : pc[w] = "idle"
    /\ \E i \in DOMAIN mem_items : \E k, l \in unreturned[i] :
          /\ k /= l
          /\ mem_loans[k].item_id = i /\ mem_loans[l].item_id = i
          /\ mem_loans[k].borrower_id /= mem_loans[l].borrower_id
    /\ Cardinality(DOMAIN mem_loans) = 2
    /\ Cardinality(DOMAIN mem_items) = 2
    /\ \A u \in DOMAIN mem_users : mem_users[u].points = 5

LoansBy(u) == {l \in DOMAIN mem_loans : mem_loans[l].borrower_id = u}
ItemsOf(u) == {i \in DOMAIN mem_items : mem_items[i].owner_id = u}
Quiescent == \A w \in Workers : pc[w] = "idle"

(* the step answers a borrow with success *)
BorrowCompletes ==
    resp' /= resp /\ resp'.op = "borrow_item" /\ resp'.status = 200

(* C12: the loans only grow: a step that completes a borrow with success   *)
(* adds exactly one loan, for its item and borrower; no other step (a      *)
(* failed borrow, a return, a creation) changes the loans; and a loan once *)
(* created is never removed or altered. Hence the number of loans is the   *)
(* number of borrows completed with success.                               *)
C12_LoansOnlyGrow ==
    [][/\ \A l \in DOMAIN mem_loans :
              l \in DOMAIN mem_loans' /\ mem_loans'[l] = mem_loans[l]
       /\ BorrowCompletes =>
              /\ DOMAIN mem_loans' = DOMAIN mem_loans \cup {resp'.id}
              /\ resp'.id \notin DOMAIN mem_loans
              /\ mem_loans'[resp'.id] =
                    [item_id |-> resp'.item_id, borrower_id |-> resp'.user_id]
       /\ ~BorrowCompletes => mem_loans' = mem_loans
      ]_vars

(* an item was lent twice and returned after its second loan: both loans   *)
(* are on record                                                           *)
C12_Witness ==
    /\ resp.op = "return_item" /\ resp.status = 200
    /\ Cardinality(LoansOf(resp.item_id)) = 2
    /\ unreturned[resp.item_id] = {}

(* every owner, lent item and borrower on record exists *)
ReferencesResolve ==
    /\ \A i \in DOMAIN mem_items : mem_items[i].owner_id \in DOMAIN mem_users
    /\ \A l \in DOMAIN mem_loans :
          /\ mem_loans[l].item_id \in DOMAIN mem_items
          /\ mem_loans[l].borrower_id \in DOMAIN mem_users

(* C13: in every state, also between the steps of interleaved requests,    *)
(* every item's owner is an existing user and every loan's item and        *)
(* borrower exist; no user or item is ever removed and an item's owner     *)
(* never changes.                                                          *)
C13_ReferencesResolve ==
    /\ ReferencesResolve
    /\ [][/\ ReferencesResolve'
          /\ DOMAIN mem_users \subseteq DOMAIN mem_users'
          /\ \A i \in DOMAIN mem_items :
                /\ i \in DOMAIN mem_items'
                /\ mem_items'[i].owner_id = mem_items[i].owner_id
         ]_vars

(* an item and a loan of it are on record while another request is being   *)
(* served                                                                  *)
C13_Witness ==
    /\ mem_loans /= <<>>
    /\ \E w \in Workers : pc[w] = "create_item:update_user_points"

(* a worker is about to call set_item_availability *)
AtSetAvailability(w) ==
    pc[w] \in {"borrow_item:set_item_availability",
               "return_item:set_item_availability"}

(* C15: with the in-memory store no request is answered 500: whenever a    *)
(* borrow or a return is about to update the availability of the item it   *)
(* resolved, the update matches a record, under every interleaving.        *)
C15_NoInternalError ==
    /\ resp.status /= 500
    /\ \A w \in Workers :
          AtSetAvailability(w) =>
              set_item_availability(req[w].item_id,
                                    req[w].op = "return_item").ok

(* a return and a borrow of the same item are both about to update it *)
C15_Witness ==
    \E v, w \in Workers :
        /\ pc[v] = "borrow_item:set_item_availability"
        /\ pc[w] = "return_item:set_item_availability"
        /\ req[v].item_id = req[w].item_id
        /\ ~mem_items[req[v].item_id].available

(* the workers serving a request of user u that are at label *)
At(label, u) == {w \in Workers : pc[w] = label /\ req[w].user_id = u}

(* every credit and debit made so far is matched by an item or a loan on   *)
(* record, or by a request that has yet to insert its loan or has yet to   *)
(* credit its item                                                         *)
DebitsMatchLoans ==
    \A u \in DOMAIN mem_users :
        mem_users[u].points =
            10 * (Cardinality(ItemsOf(u))
                    - Cardinality(At("create_item:update_user_points", u)))
            - 5 * (Cardinality(LoansBy(u))
                    + Cardinality(At("borrow_item:create_loan_store", u)))

(* C16: the three writes of a borrow happen in the order flag, debit,      *)
(* loan: the first marks the item unavailable and touches no points and no *)
(* loan, the second debits the borrower 5 and adds no loan, the third adds *)
(* the loan; a loan is only ever added by a borrow that has made the other *)
(* two writes, so every loan on record is matched by a debit, and a borrow *)
(* stopped between its writes has left the flag false with no loan.        *)
C16_WriteOrder ==
    /\ DebitsMatchLoans
    /\ [][/\ DebitsMatchLoans'
          /\ mem_loans' /= mem_loans =>
                \E w \in Workers : /\ pc[w] = "borrow_item:create_loan_store"
                                   /\ pc'[w] = "idle"
          /\ \A w \in Workers :
                LET i == req[w].item_id
                    b == req[w].user_id
                IN
                /\ (pc'[w] = "borrow_item:update_user_points" /\ pc'[w] /= pc[w]) =>
                      /\ pc[w] = "borrow_item:set_item_availability"
                      /\ ~mem_items'[i].available
                      /\ mem_users' = mem_users /\ mem_loans' = mem_loans
                /\ (pc'[w] = "borrow_item:create_loan_store" /\ pc'[w] /= pc[w]) =>
                      /\ pc[w] = "borrow_item:update_user_points"
                      /\ mem_users' = [mem_users EXCEPT ![b].points = @ - 5]
                      /\ mem_items' = mem_items /\ mem_loans' = mem_loans
                /\ (pc[w] = "borrow_item:create_loan_store" /\ pc'[w] /= pc[w]) =>
                      /\ Cardinality(DOMAIN mem_loans') = Cardinality(DOMAIN mem_loans) + 1
                      /\ mem_users' = mem_users /\ mem_items' = mem_items
         ]_vars

(* a borrow stands between its debit and its insert: the item is           *)
(* unavailable, the borrower has paid, no loan is on record                *)
C16_Witness ==
    \E w \in Workers :
        /\ pc[w] = "borrow_item:create_loan_store"
        /\ ~mem_items[req[w].item_id].available
        /\ mem_users[req[w].user_id].points = 5
        /\ mem_loans = <<>>

(* the borrows of u that have passed the points check and not yet debited *)
AwaitingDebit(u) ==
    At("borrow_item:set_item_availability", u)
        \cup At("borrow_item:update_user_points", u)

(* C17 as stated: with interleaved requests no user's points fall below 0. *)
C17_NonNegativeInterleaved ==
    \A u \in DOMAIN mem_users : mem_users[u].points >= 0

(* C17 (amended): the points check does not protect the debit when several *)
(* borrows of one borrower are in flight: each passes the check on the     *)
(* same balance and each debits 5. With at most NumWorkers requests served *)
(* at once, a balance, less the debits still to come, never falls below    *)
(* -5 * (NumWorkers - 1).                                                  *)
C17_PointsFloor ==
    \A u \in DOMAIN mem_users :
        /\ mem_users[u].points - 5 * Cardinality(AwaitingDebit(u))
              >= -5 * (NumWorkers - 1)
        /\ mem_users[u].points >= -5 * (NumWorkers - 1)

(* a balance below 0 *)
C17_Witness ==
    \E u \in DOMAIN mem_users : mem_users[u].points < 0

(* C18: with no request in flight, each user's points are 10 times the     *)
(* number of the user's items less 5 times the number of the user's loans. *)
C18_PointsConserved ==
    Quiescent =>
        \A u \in DOMAIN mem_users :
            mem_users[u].points =
                10 * Cardinality(ItemsOf(u)) - 5 * Cardinality(LoansBy(u))

(* no request in flight, and a user with one item and three loans *)
C18_Witness ==
    /\ Quiescent
    /\ \E u \in DOMAIN mem_users :
          /\ Cardinality(ItemsOf(u)) = 1
          /\ Cardinality(LoansBy(u)) = 3

(* ====================================================================== *)
(* Properties of the two backends side by side (SpecB)                     *)
(* ====================================================================== *)

(* C11: the two backends behave alike: the id a creation returns resolves  *)
(* through the lookup-by-id and update-by-id helpers to the record         *)
(* created, so the same requests get the same status, and the users'       *)
(* points and the items' available flags are the same in both.             *)
C11_BackendsAgree ==
    /\ resp_mongo.op = resp.op
    /\ resp_mongo.status = resp.status
    /\ (resp_mongo.op = "create_user" /\ resp_mongo.status = 200) =>
          /\ get_user_store_mongo(resp_mongo.id) /= None
          /\ update_user_points_mongo(resp_mongo.id, 0).ok
    /\ (resp_mongo.op = "create_item" /\ resp_mongo.status = 200) =>
          /\ get_item_store_mongo(resp_mongo.id) /= None
          /\ set_item_availability_mongo(resp_mongo.id, TRUE).ok
    /\ \A n \in DOMAIN mem_users :
          /\ ObjectId(n) \in DOMAIN db_users
          /\ db_users[ObjectId(n)].points = mem_users[n].points
    /\ \A n \in DOMAIN mem_items :
          /\ ObjectId(n) \in DOMAIN db_items
          /\ db_items[ObjectId(n)].available = mem_items[n].available
    /\ Cardinality(DOMAIN db_loans) = Cardinality(DOMAIN mem_loans)

(* ====================================================================== *)
(* Properties of the email validator (SpecV)                               *)
(* ====================================================================== *)

(* v is wholly of the shape text@text.text, each text non-empty and free   *)
(* of at signs                                                             *)
WhollyShaped(v) ==
    \E i, j \in 1..Len(v) :
        /\ 1 < i /\ i + 1 < j /\ j < Len(v)
        /\ v[i] = "@" /\ v[j] = "."
        /\ \A k \in 1..Len(v) : k /= i => v[k] /= "@"

(* C14: an email that is not wholly of the shape text@text.text is         *)
(* rejected, and an accepted email is stored lower-cased and without       *)
(* leading or trailing whitespace.                                         *)
C14_EmailValidated ==
    validated /= NotValidated =>
        /\ ~WhollyShaped(email) => validated = ValueError
        /\ validated /= ValueError =>
              LET e == validated.email IN
              /\ \A k \in 1..Len(e) : e[k] /= "B"
              /\ e /= <<>> => (e[1] /= " " /\ e[Len(e)] /= " ")

====
